---------------------------- MODULE Spec2Model ----------------------------
(***************************************************************************)
(* A model of treediff.py: the line index (Line2Nodes), the grouping of a  *)
(* line diff into intervals (adjust_seqdiff), the node sketcher            *)
(* (hash_node), the diff itself (treediff) and the script writer           *)
(* (write_diff).                                                           *)
(*                                                                         *)
(* A tree is a record of sequences indexed by node: node 1 is the root,    *)
(* children[n] the ordered children of n, line[n] and endline[n] the lines *)
(* of start_position and end_position (line 0: no position), token[n] and  *)
(* roles[n] the token and the role numbers.  id(node) is the node's index. *)
(* Python lists are sequences; where the code indexes from 0 (the lines of *)
(* a Line2Nodes, the rows and columns of dists) the model uses functions   *)
(* over 0..n-1 so that every index is the code's index.                    *)
(***************************************************************************)
EXTENDS Integers, Sequences, FiniteSets, TLC

VARIABLES
    pc,                 \* where the call is: the stage of treediff, or "call"/"done"/"raised"
    src1, src2,         \* treediff: the lines of the two sources (src2 is src_after)
    uast1, uast2,       \* treediff: the two trees
    nseeds,             \* treediff: the number of hash rounds
    line2nodes_before,  \* treediff: Line2Nodes(len(src1), uast1)._lines
    line2nodes_after,   \* treediff: Line2Nodes(len(src2), uast2)._lines
    seqdiff,            \* the line diff handed to adjust_seqdiff
    intervals,          \* adjust_seqdiff: the raw intervals
    adjusted_diff,      \* adjust_seqdiff: its result
    white_list1, white_list2,
    seed,               \* the hash round
    map1, map2,         \* the fingerprint maps of the round, in insertion order
    ret,                \* hash_node: the (weight, bytes) it returned
    dists,              \* the distance matrix, or None
    supermap1, supermap2,
    row_ind,            \* the assignment lapjv returned
    diff,               \* the list of changes
    script,             \* write_diff: the emitted script
    key,                \* Line2Nodes.__getitem__: its argument
    nodes               \* Line2Nodes.__getitem__: its result

vars == <<pc, src1, src2, uast1, uast2, nseeds, line2nodes_before, line2nodes_after,
          seqdiff, intervals, adjusted_diff, white_list1, white_list2, seed, map1, map2,
          ret, dists, supermap1, supermap2, row_ind, diff, script, key, nodes>>

None == "None"

HASH_SIZE == 16

\* Role.values_by_name["FILE"].number: the code looks the number up by name
file_role == 34

----------------------------------------------------------------------------
(* Bounds of the model *)

MaxLines == 3
MaxSeeds == 2
MaxDiffLen == 4
MaxKids == 3
MaxSrcLines == 2
MaxChanges == 2

----------------------------------------------------------------------------
(* Helpers: Python built-ins *)

Range(s) == {s[i] : i \in DOMAIN s}

Min(a, b) == IF a < b THEN a ELSE b

Max(a, b) == IF a > b THEN a ELSE b

RECURSIVE SumSeq(_)
SumSeq(s) == IF s = <<>> THEN 0 ELSE Head(s) + SumSeq(Tail(s))

RECURSIVE Insert(_, _)
\* the sorted sequence s with x put in its place
Insert(s, x) ==
    IF s = <<>> THEN <<x>>
    ELSE IF x <= Head(s) THEN <<x>> \o s
    ELSE <<Head(s)>> \o Insert(Tail(s), x)

RECURSIVE Sorted(_)
\* sorted(b): the bytes of b in ascending order
Sorted(b) == IF b = <<>> THEN <<>> ELSE Insert(Sorted(Tail(b)), Head(b))

NodesOf(t) == 1..Len(t.children)

----------------------------------------------------------------------------
(* Line2Nodes *)

\* Line2Nodes.__init__: lines[line - 1] raises IndexError for a node positioned beyond
\* the last line
Line2NodesInitRaises(nlines, root) ==
    \E n \in NodesOf(root) : root.line[n] > 0 /\ root.endline[n] >= root.line[n]
                             /\ root.endline[n] > nlines

\* Line2Nodes.__init__: _lines[l] holds the nodes with a position that cover line l + 1
Line2NodesInit(nlines, root) ==
    [l \in 0..(nlines - 1) |->
        {n \in NodesOf(root) : root.line[n] > 0
                               /\ root.line[n] <= l + 1 /\ l + 1 <= root.endline[n]}]

RECURSIVE UnionLines(_, _, _)
\* for l in range(from, end): nodes = nodes.union(_lines[l])
UnionLines(lines, from, end) ==
    IF from >= end THEN {} ELSE lines[from] \cup UnionLines(lines, from + 1, end)

\* Line2Nodes.__getitem__ with a tuple: the code's order of operations
Line2NodesGetItem(lines, start, end) ==
    LET nlines == Cardinality(DOMAIN lines)
        n0 == lines[start]
        n1 == IF start > 0 THEN n0 \ lines[start - 1] ELSE n0
        n2 == n1 \cup UnionLines(lines, start + 1, end)
    IN  IF end < nlines THEN n2 \ lines[end] ELSE n2

\* Line2Nodes.__getitem__ with a tuple: _lines[start] and _lines[l] raise IndexError
\* beyond the last line
GetItemRaises(lines, start, end) ==
    LET nlines == Cardinality(DOMAIN lines)
    IN  start >= nlines \/ (end > start + 1 /\ end > nlines)

----------------------------------------------------------------------------
(* Trees *)

\* The (start line, end line) a node of a source of nlines lines can have: none
\* (line 0), or a range of lines of the source.
Spans(nlines) ==
    {<<0, 0>>} \cup {p \in (1..nlines) \X (1..nlines) : p[1] <= p[2]}

\* a root with one child, with every choice of their spans
LineTrees(nlines) ==
    {[children |-> <<(<<2>>), (<<>>)>>,
      line     |-> <<a[1], b[1]>>,
      endline  |-> <<a[2], b[2]>>,
      token    |-> <<0, 1>>,
      roles    |-> <<(<<>>), (<<>>)>>] : a \in Spans(nlines), b \in Spans(nlines)}

----------------------------------------------------------------------------
(* The lookups of a line index: Line2Nodes(nlines, root)[(start, end)] *)

InitLines ==
    /\ pc = "call"
    /\ \E nlines \in 1..MaxLines :
         /\ src2 = [l \in 1..nlines |-> 0]
         /\ uast2 \in LineTrees(nlines)
         /\ line2nodes_after = Line2NodesInit(nlines, uast2)
    /\ key = None /\ nodes = None
    /\ src1 = None /\ uast1 = None /\ nseeds = None /\ line2nodes_before = None
    /\ seqdiff = None /\ intervals = None /\ adjusted_diff = None
    /\ white_list1 = None /\ white_list2 = None /\ seed = None
    /\ map1 = None /\ map2 = None /\ ret = None /\ dists = None
    /\ supermap1 = None /\ supermap2 = None /\ row_ind = None
    /\ diff = None /\ script = None

GetItem ==
    /\ pc = "call"
    /\ \E start \in 0..Len(src2), end \in 0..Len(src2) :
         /\ start <= end
         /\ key' = <<start, end>>
         /\ IF GetItemRaises(line2nodes_after, start, end)
            THEN pc' = "raised" /\ nodes' = None
            ELSE pc' = "done" /\ nodes' = Line2NodesGetItem(line2nodes_after, start, end)
    /\ UNCHANGED <<src1, src2, uast1, uast2, nseeds, line2nodes_before, line2nodes_after,
                   seqdiff, intervals, adjusted_diff, white_list1, white_list2, seed,
                   map1, map2, ret, dists, supermap1, supermap2, row_ind, diff, script>>

NextLines == GetItem

SpecLines == InitLines /\ [][NextLines]_vars

\* C10: every node the interval lookup returns for 0 <= start < end <= nlines covers a
\* line of [start, end), does not cover line start - 1 (when start > 0) and does not
\* cover line end (when end < nlines).
C10_LookupStaysInsideInterval ==
    (pc = "done" /\ key[1] < key[2]) =>
        \A n \in nodes :
            /\ \E l \in key[1]..(key[2] - 1) : n \in line2nodes_after[l]
            /\ (key[1] > 0 => n \notin line2nodes_after[key[1] - 1])
            /\ (key[2] < Len(src2) => n \notin line2nodes_after[key[2]])

----------------------------------------------------------------------------
(* adjust_seqdiff *)

\* An entry of the line diff is <<marker, line>>: line[0] is the marker ("+", "-" or
\* " ") and line[2:] the source line, a token.
Changed(e) == e[1] = "+" \/ e[1] = "-"

\* the state of the first loop before its first entry
LoopStart ==
    [line_before |-> 0, line_after |-> 0, intervals |-> <<>>,
     interval_add |-> <<>>, interval_rm |-> <<>>,
     interval_start_before |-> -1, interval_start_after |-> -1]

\* one iteration of `for i, line in enumerate(seqdiff)`
LoopStep(st, line) ==
    IF line[1] = "+" THEN
        [st EXCEPT !.interval_start_after =
                       IF Len(st.interval_add) = 0 THEN st.line_after ELSE @,
                   !.line_after = @ + 1,
                   !.interval_add = Append(@, line)]
    ELSE IF line[1] = "-" THEN
        [st EXCEPT !.interval_start_before =
                       IF Len(st.interval_rm) = 0 THEN st.line_before ELSE @,
                   !.line_before = @ + 1,
                   !.interval_rm = Append(@, line)]
    ELSE
        LET flush == st.interval_add # <<>> \/ st.interval_rm # <<>>
            entry == <<st.interval_add, st.interval_rm,
                       IF st.interval_start_before > -1
                           THEN st.interval_start_before ELSE st.line_before,
                       st.line_before,
                       IF st.interval_start_after > -1
                           THEN st.interval_start_after ELSE st.line_after,
                       st.line_after>>
        IN  [st EXCEPT !.intervals = IF flush THEN Append(@, entry) ELSE @,
                       !.interval_add = IF flush THEN <<>> ELSE @,
                       !.interval_rm = IF flush THEN <<>> ELSE @,
                       !.line_before = @ + 1,
                       !.line_after = @ + 1]

RECURSIVE LoopFrom(_, _, _)
LoopFrom(sd, i, st) ==
    IF i > Len(sd) THEN st ELSE LoopFrom(sd, i + 1, LoopStep(st, sd[i]))

\* the raw intervals: `intervals` when the first loop of adjust_seqdiff has ended
RawIntervals(sd) == LoopFrom(sd, 1, LoopStart).intervals

RECURSIVE Neighbors(_, _, _, _)
\* the while loop counting neighbors; src_after[end_after + neighbors] raises
\* IndexError past the last line, which is -1 here (src_after is indexed from 0, the
\* sequence from 1)
Neighbors(interval_add, src_after, end_after, neighbors) ==
    IF neighbors >= Len(interval_add) THEN neighbors
    ELSE IF end_after + neighbors >= Len(src_after) THEN -1
    ELSE IF src_after[end_after + neighbors + 1] = interval_add[neighbors + 1][2]
         THEN Neighbors(interval_add, src_after, end_after, neighbors + 1)
         ELSE neighbors

\* what the second loop appends for one raw interval (out), or IndexError (raised)
AdjustOne(i, src_after, line2nodes) ==
    LET interval_add == i[1]
        interval_rm == i[2]
        start_before == i[3]
        end_before == i[4]
        start_after == i[5]
        end_after == i[6]
        same == [raised |-> FALSE, out |-> << <<i[3], i[4], i[5], i[6]>> >>]
    IN  IF Len(interval_add) \in {0, 1} /\ Len(interval_rm) \in {0, 1} THEN same
        ELSE LET neighbors == Neighbors(interval_add, src_after, end_after, 0)
             IN  IF neighbors = -1 THEN [raised |-> TRUE, out |-> <<>>]
                 ELSE IF neighbors = 0 THEN same
                 ELSE LET ls1 == UnionLines(line2nodes, start_after, end_after)
                          ls2 == UnionLines(line2nodes, start_after + neighbors,
                                            end_after + neighbors)
                      IN  IF Cardinality(ls1) = Cardinality(ls2) THEN same
                          ELSE [raised |-> FALSE,
                                out |->
                                  (IF end_before - start_before > 0
                                       THEN << <<start_before, end_before,
                                                 start_after, start_after>> >>
                                       ELSE <<>>)
                                  \o << <<end_before + neighbors, end_before + neighbors,
                                          start_after + neighbors,
                                          end_after + neighbors>> >>]

RECURSIVE AdjustFrom(_, _, _, _, _)
AdjustFrom(ivs, k, src_after, line2nodes, adjusted) ==
    IF k > Len(ivs) THEN [raised |-> FALSE, out |-> adjusted]
    ELSE LET one == AdjustOne(ivs[k], src_after, line2nodes)
         IN  IF one.raised THEN one
             ELSE AdjustFrom(ivs, k + 1, src_after, line2nodes, adjusted \o one.out)

\* adjust_seqdiff(seqdiff, src_after, line2nodes): the adjusted diff (out), or
\* IndexError (raised)
adjust_seqdiff(sd, src_after, line2nodes) ==
    AdjustFrom(RawIntervals(sd), 1, src_after, line2nodes, <<>>)

\* a root over the whole source (without position for an empty source) with one child
AdjustTrees(nlines) ==
    {[children |-> <<(<<2>>), (<<>>)>>,
      line     |-> <<IF nlines = 0 THEN 0 ELSE 1, b[1]>>,
      endline  |-> <<nlines, b[2]>>,
      token    |-> <<0, 1>>,
      roles    |-> <<(<<>>), (<<>>)>>] : b \in Spans(nlines)}

Markers == {"+", "-", " "}
LineTokens == {0, 1}

RECURSIVE SeqsUpTo(_, _)
\* the sequences over S of length at most n
SeqsUpTo(S, n) ==
    IF n = 0 THEN {<<>>}
    ELSE LET shorter == SeqsUpTo(S, n - 1)
         IN  shorter \cup {Append(q, x) : q \in shorter, x \in S}

RECURSIVE SideLines(_, _)
\* the lines of one side of a diff: its entries without those marked `other`
SideLines(sd, other) ==
    IF sd = <<>> THEN <<>>
    ELSE IF Head(sd)[1] = other THEN SideLines(Tail(sd), other)
         ELSE <<Head(sd)[2]>> \o SideLines(Tail(sd), other)

InitAdjust ==
    /\ pc = "call"
    /\ seqdiff \in SeqsUpTo(Markers \X LineTokens, MaxDiffLen)
    /\ src1 = SideLines(seqdiff, "+")
    /\ src2 = SideLines(seqdiff, "-")
    /\ uast2 \in AdjustTrees(Len(src2))
    /\ line2nodes_after = Line2NodesInit(Len(src2), uast2)
    /\ intervals = None /\ adjusted_diff = None
    /\ key = None /\ nodes = None
    /\ uast1 = None /\ nseeds = None /\ line2nodes_before = None
    /\ white_list1 = None /\ white_list2 = None /\ seed = None
    /\ map1 = None /\ map2 = None /\ ret = None /\ dists = None
    /\ supermap1 = None /\ supermap2 = None /\ row_ind = None
    /\ diff = None /\ script = None

AdjustSeqdiff ==
    /\ pc = "call"
    /\ intervals' = RawIntervals(seqdiff)
    /\ LET adjusted == adjust_seqdiff(seqdiff, src2, line2nodes_after)
       IN  IF adjusted.raised
           THEN pc' = "raised" /\ adjusted_diff' = None
           ELSE pc' = "done" /\ adjusted_diff' = adjusted.out
    /\ UNCHANGED <<src1, src2, uast1, uast2, nseeds, line2nodes_before, line2nodes_after,
                   seqdiff, white_list1, white_list2, seed, map1, map2, ret, dists,
                   supermap1, supermap2, row_ind, diff, script, key, nodes>>

NextAdjust == AdjustSeqdiff

SpecAdjust == InitAdjust /\ [][NextAdjust]_vars

\* the number of maximal runs of "+"/"-" entries of a diff
NumRuns(sd) ==
    Cardinality({k \in 1..Len(sd) : Changed(sd[k]) /\ (k = 1 \/ ~Changed(sd[k - 1]))})

\* C8: adjust_seqdiff forms one raw interval for every maximal run of "+"/"-" entries,
\* a run that ends the diff included, whose before range has as many lines as the run
\* has "-" entries and whose after range has as many lines as the run has "+" entries.
C8_OneIntervalPerRun ==
    pc # "call" =>
        /\ Len(intervals) = NumRuns(seqdiff)
        /\ \A k \in 1..Len(intervals) :
              /\ intervals[k][4] - intervals[k][3] = Len(intervals[k][2])
              /\ intervals[k][6] - intervals[k][5] = Len(intervals[k][1])

----------------------------------------------------------------------------
(* hash_node *)

RECURSIVE RoleSeed(_, _, _)
\* seed |= roles[i + offset] << (i << 3) for i in range(min(4, len(roles) - offset)),
\* from i on; a role number is below 256, so that the bits or-ed are distinct
RoleSeed(roles, offset, i) ==
    IF i >= Min(4, Len(roles) - offset) THEN 0
    ELSE roles[i + offset + 1] * (256 ^ i) + RoleSeed(roles, offset, i + 1)

\* farmhash.hash128withseed(token, seed1, seed2) as its 16 little-endian bytes.  The
\* hash function is a library's: this stands for it, a fixed function of its three
\* arguments whose bytes repeat within a hash and are shared between hashes.
FarmHash(token, seed1, seed2) ==
    [k \in 1..16 |-> ((token + 1) * (k \div 2) * 3 + seed1 + 7 * seed2) % 256]

\* a hash_self that tests the line against the seed instead of 0
hash_self_line_is_seed(t, n, sd, white_list) ==
    IF t.line[n] = sd \/ n \notin white_list THEN [w |-> 0, b |-> <<>>]
    ELSE [w |-> 1, b |-> FarmHash(t.token[n], RoleSeed(t.roles[n], 0, 0), 0)]

\* hash_self(), as the pair (weight, bytes); node, seed and white_list are those of
\* the enclosing call
hash_self(t, n, sd, white_list) ==
    IF t.line[n] = 0 \/ n \notin white_list THEN [w |-> 0, b |-> <<>>]
    ELSE LET roles == t.roles[n]
             seed1 == RoleSeed(roles, 0, 0)
             seed2 == IF Len(roles) > 4 THEN RoleSeed(roles, 4, 0) ELSE 0
         IN  [w |-> 1, b |-> FarmHash(t.token[n], seed1, seed2)]

\* numpy.random.seed(seed); numpy.random.permutation(n): the generator is a
\* library's, and this stands for it: a permutation of 1..n fixed by seed and n
Permutation(sd, n) == [k \in 1..n |-> ((k - 1 + sd) % n) + 1]

\* numpy.random.seed(seed); numpy.random.choice(a, s, replace=False), for s <= len(a):
\* the first s elements of a permutation of a
Choice(sd, a, s) == [k \in 1..s |-> a[Permutation(sd, Len(a))[k]]]

\* [h[0] for h in inner_hashes if h[0] > 0]
RECURSIVE Weights(_)
Weights(inner_hashes) ==
    IF inner_hashes = <<>> THEN <<>>
    ELSE (IF Head(inner_hashes).w > 0 THEN <<Head(inner_hashes).w>> ELSE <<>>)
         \o Weights(Tail(inner_hashes))

\* ss2, as the indices i of its pairs (s, i): sorted by (s, i), reversed
Ss2(sample_sizes) ==
    LET n == Len(sample_sizes)
        Above(j, i) == sample_sizes[j] > sample_sizes[i]
                       \/ (sample_sizes[j] = sample_sizes[i] /\ j > i)
    IN  [k \in 1..n |-> CHOOSE i \in 1..n : Cardinality({j \in 1..n : Above(j, i)}) = k - 1]

RECURSIVE BalanceFor(_, _, _, _, _, _)
\* `for s, i in ss2` from its k-th pair on
BalanceFor(ss2, k, sample_sizes, delta, fix, possible) ==
    IF k > Len(ss2)
    THEN [sample_sizes |-> sample_sizes, delta |-> delta, possible |-> possible]
    ELSE LET i == ss2[k]
         IN  IF sample_sizes[i] < 2 /\ fix < 0
             THEN BalanceFor(ss2, k + 1, sample_sizes, delta, fix, possible)
             ELSE LET bumped == [sample_sizes EXCEPT ![i] = @ + fix]
                  IN  IF delta - fix = 0
                      THEN [sample_sizes |-> bumped, delta |-> 0, possible |-> TRUE]
                      ELSE BalanceFor(ss2, k + 1, bumped, delta - fix, fix, TRUE)

RECURSIVE BalanceWhile(_, _, _, _)
\* `while delta != 0 and possible`, entered with delta != 0 and possible
BalanceWhile(ss2, sample_sizes, delta, fix) ==
    LET pass == BalanceFor(ss2, 1, sample_sizes, delta, fix, FALSE)
    IN  IF pass.delta # 0 /\ pass.possible
        THEN BalanceWhile(ss2, pass.sample_sizes, pass.delta, fix)
        ELSE pass

\* the sample sizes by which the bytes are drawn (sizes), or ValueError (raised) from
\* numpy.random.choice(indices, 15, replace=False) over fewer than 15 indices
SampleSizes(weights, total, sd) ==
    LET first == [k \in 1..Len(weights) |-> Max(1, (weights[k] * HASH_SIZE) \div total)]
        delta == HASH_SIZE - SumSeq(first)
    IN  IF delta = 0 THEN [raised |-> FALSE, sizes |-> first]
        ELSE LET bal == BalanceWhile(Ss2(first), first, delta, IF delta > 0 THEN 1 ELSE -1)
             IN  IF bal.possible THEN [raised |-> FALSE, sizes |-> bal.sample_sizes]
                 ELSE IF Len(first) - 1 < 15 THEN [raised |-> TRUE, sizes |-> <<>>]
                 ELSE LET choice == Choice(sd, [k \in 1..(Len(first) - 1) |-> k], 15)
                      IN  [raised |-> FALSE,
                           sizes |-> [k \in 1..Len(first) |->
                                        IF k = Len(first) \/ k \in Range(choice)
                                        THEN 1 ELSE 0]]

RECURSIVE DrawFrom(_, _, _, _)
\* `for h, s in zip(inner_hashes, sample_sizes)` from the k-th pair on: the number of
\* arrays appended to choices (n), their bytes (b), or ValueError (raised) from drawing
\* more bytes than h has
DrawFrom(inner_hashes, sample_sizes, k, sd) ==
    IF k > Min(Len(inner_hashes), Len(sample_sizes))
    THEN [raised |-> FALSE, n |-> 0, b |-> <<>>]
    ELSE LET h == inner_hashes[k]
             rest == DrawFrom(inner_hashes, sample_sizes, k + 1, sd)
         IN  IF h.w = 0 THEN rest
             ELSE IF sample_sizes[k] > Len(h.b) THEN [raised |-> TRUE, n |-> 0, b |-> <<>>]
             ELSE [raised |-> rest.raised, n |-> rest.n + 1,
                   b |-> Choice(sd, Sorted(h.b), sample_sizes[k]) \o rest.b]

RECURSIVE hash_node(_, _, _, _, _)
RECURSIVE HashChildren(_, _, _, _, _, _)

\* [hash_node(c, seed, mapping, white_list) for c in children], from the k-th child on
HashChildren(t, children, k, sd, mapping, white_list) ==
    IF k > Len(children) THEN [raised |-> FALSE, hs |-> <<>>, mapping |-> mapping]
    ELSE LET h == hash_node(t, children[k], sd, mapping, white_list)
         IN  IF h.raised THEN [raised |-> TRUE, hs |-> <<>>, mapping |-> h.mapping]
             ELSE LET rest == HashChildren(t, children, k + 1, sd, h.mapping, white_list)
                  IN  [raised |-> rest.raised,
                       hs |-> <<[w |-> h.w, b |-> h.b]>> \o rest.hs,
                       mapping |-> rest.mapping]

\* hash_node(node, seed, mapping, white_list) on node n of tree t: the pair (w, b) it
\* returns and the mapping as it leaves it, a sequence of (id, fingerprint) in the
\* order of insertion; raised when it ends in an exception
hash_node(t, n, sd, mapping, white_list) ==
    LET children == t.children[n]
        self == hash_self(t, n, sd, white_list)
    IN  IF children = <<>>
        THEN [raised |-> FALSE, w |-> self.w, b |-> self.b,
              mapping |-> IF self.w > 0 THEN Append(mapping, <<n, self.b>>) ELSE mapping]
        ELSE
        LET kids == HashChildren(t, children, 1, sd, mapping, white_list)
            inner_hashes == kids.hs \o <<self>>
            weights == Weights(inner_hashes)
            total == SumSeq(weights)
            sizes == SampleSizes(weights, total, sd)
            drawn == DrawFrom(inner_hashes, sizes.sizes, 1, sd)
        IN  IF kids.raised
            THEN [raised |-> TRUE, w |-> 0, b |-> <<>>, mapping |-> kids.mapping]
            ELSE IF n \notin white_list
            THEN  \* (the test `weights == 0` that follows compares a list with 0: never true)
                 [raised |-> FALSE, w |-> 0, b |-> <<>>, mapping |-> kids.mapping]
            ELSE IF sizes.raised \/ drawn.raised \/ drawn.n = 0
            THEN [raised |-> TRUE, w |-> 0, b |-> <<>>, mapping |-> kids.mapping]
            ELSE [raised |-> FALSE, w |-> total, b |-> drawn.b,
                  mapping |-> Append(kids.mapping, <<n, drawn.b>>)]

----------------------------------------------------------------------------
(* The calls of hash_node on a tree, seed after seed *)

\* the tree of a root (node 1) with nkids children that are leaves
Star(nkids, pos) ==
    [children |-> [n \in 1..(nkids + 1) |->
                      IF n = 1 THEN [k \in 1..nkids |-> k + 1] ELSE <<>>],
     line     |-> [n \in 1..(nkids + 1) |-> pos[n]],
     endline  |-> [n \in 1..(nkids + 1) |-> pos[n]],
     token    |-> [n \in 1..(nkids + 1) |-> n % 3],
     roles    |-> [n \in 1..(nkids + 1) |->
                      IF n % 3 = 0 THEN <<>>
                      ELSE IF n % 3 = 1 THEN <<n % 5>>
                      ELSE <<1, 2, 3, 4, n % 5>>]]

\* the tree of a root (node 1) with two children, the first of them (node 2) with
\* nkids children that are leaves
Nested(nkids, pos) ==
    [children |-> [n \in 1..(nkids + 3) |->
                      IF n = 1 THEN <<2, 3>>
                      ELSE IF n = 2 THEN [k \in 1..nkids |-> k + 3] ELSE <<>>],
     line     |-> [n \in 1..(nkids + 3) |-> pos[n]],
     endline  |-> [n \in 1..(nkids + 3) |-> pos[n]],
     token    |-> [n \in 1..(nkids + 3) |-> n % 3],
     roles    |-> [n \in 1..(nkids + 3) |-> <<n % 5>>]]

\* the number of children with which the balance pass fails: with the node itself,
\* HASH_SIZE + 1 entries of weight 1
ManyKids == HASH_SIZE

\* The trees and whitelists hash_node is called on: every position pattern (line 1 or
\* no position) and every whitelist of the small trees; of the tree with ManyKids
\* children, those where the root, the first child or the last child (or none) has no
\* position, and the same for being left out of the whitelist.
HashInputs ==
    {[tree |-> Star(nkids, pos), white_list |-> wl] :
        nkids \in 0..MaxKids,
        pos \in [1..(MaxKids + 1) -> {0, 1}],
        wl \in SUBSET (1..(MaxKids + 1))}
    \cup
    {[tree |-> Nested(2, pos), white_list |-> wl] :
        pos \in [1..5 -> {0, 1}], wl \in SUBSET (1..5)}
    \cup
    {[tree |-> Star(ManyKids, [n \in 1..(ManyKids + 1) |-> IF n = nopos THEN 0 ELSE 1]),
      white_list |-> (1..(ManyKids + 1)) \ {notwl}] :
        nopos \in {0, 1, 2, ManyKids + 1}, notwl \in {0, 1, 2, ManyKids + 1}}

InitHash ==
    /\ pc = "call"
    /\ \E inp \in HashInputs :
         /\ uast1 = inp.tree
         /\ white_list1 = inp.white_list \cap NodesOf(inp.tree)
    /\ seed = 0
    /\ map1 = <<>>
    /\ ret = <<0, <<>> >>
    /\ src1 = None /\ src2 = None /\ uast2 = None /\ nseeds = None
    /\ line2nodes_before = None /\ line2nodes_after = None
    /\ seqdiff = None /\ intervals = None /\ adjusted_diff = None
    /\ white_list2 = None /\ map2 = None /\ dists = None
    /\ supermap1 = None /\ supermap2 = None /\ row_ind = None
    /\ diff = None /\ script = None /\ key = None /\ nodes = None

\* map1 = {}; hash_node(uast1, seed, map1, white_list1), for the next seed
HashNode ==
    /\ pc = "call"
    /\ LET h == hash_node(uast1, 1, seed, <<>>, white_list1)
       IN  IF h.raised
           THEN pc' = "raised" /\ UNCHANGED <<map1, ret, seed>>
           ELSE /\ map1' = h.mapping
                /\ ret' = <<h.w, h.b>>
                /\ seed' = seed + 1
                /\ pc' = IF seed + 1 < MaxSeeds THEN "call" ELSE "done"
    /\ UNCHANGED <<src1, src2, uast1, uast2, nseeds, line2nodes_before, line2nodes_after,
                   seqdiff, intervals, adjusted_diff, white_list1, white_list2, map2,
                   dists, supermap1, supermap2, row_ind, diff, script, key, nodes>>

NextHash == HashNode

SpecHash == InitHash /\ [][NextHash]_vars

\* C3: every fingerprint hash_node records in the mapping has length HASH_SIZE.
C3_FingerprintLength ==
    \A k \in 1..Len(map1) : Len(map1[k][2]) = HASH_SIZE

\* C4: hash_node is total: it returns a (weight, bytes) pair and never raises.
C4_HashNodeTotal ==
    pc # "raised"

----------------------------------------------------------------------------
(* difflib.Differ().compare on two lists of lines *)

RECURSIVE MatchLength(_, _, _, _, _, _)
\* the length of the longest common prefix of a[i:ahi] and b[j:bhi]
MatchLength(a, b, i, ahi, j, bhi) ==
    IF i < ahi /\ j < bhi /\ a[i + 1] = b[j + 1]
    THEN 1 + MatchLength(a, b, i + 1, ahi, j + 1, bhi)
    ELSE 0

\* SequenceMatcher.find_longest_match: <<i, j, k>> with a[i:i+k] == b[j:j+k] the longest
\* block of a[alo:ahi] and b[blo:bhi], of those the one that starts earliest in a, and
\* of those the one that starts earliest in b
FindLongestMatch(a, b, alo, ahi, blo, bhi) ==
    LET cand == (alo..(ahi - 1)) \X (blo..(bhi - 1))
        size == [q \in cand |-> MatchLength(a, b, q[1], ahi, q[2], bhi)]
    IN  IF \A q \in cand : size[q] = 0 THEN <<alo, blo, 0>>
        ELSE LET m == CHOOSE q \in cand :
                        \A r \in cand :
                            \/ size[r] < size[q]
                            \/ (size[r] = size[q]
                                /\ (q[1] < r[1] \/ (q[1] = r[1] /\ q[2] <= r[2])))
             IN  <<m[1], m[2], size[m]>>

\* Differ._dump(tag, x, lo, hi)
Dump(tag, x, lo, hi) == [k \in 1..(hi - lo) |-> <<tag, x[lo + k]>>]

RECURSIVE Compare(_, _, _, _, _, _)
\* Differ.compare on a[alo:ahi] and b[blo:bhi]: the matching block is dumped with " ",
\* what lies before and after it is compared in turn; where nothing matches the lines
\* are deleted, inserted or replaced (Differ._plain_replace: the shorter side first).
\* Lines are tokens here: two different lines are never similar enough for Differ to
\* pair them up and add "? " hint lines.
Compare(a, b, alo, ahi, blo, bhi) ==
    IF alo >= ahi /\ blo >= bhi THEN <<>>
    ELSE LET m == FindLongestMatch(a, b, alo, ahi, blo, bhi)
         IN  IF m[3] = 0
             THEN IF bhi - blo < ahi - alo
                  THEN Dump("+", b, blo, bhi) \o Dump("-", a, alo, ahi)
                  ELSE Dump("-", a, alo, ahi) \o Dump("+", b, blo, bhi)
             ELSE Compare(a, b, alo, m[1], blo, m[2])
                  \o Dump(" ", a, m[1], m[1] + m[3])
                  \o Compare(a, b, m[1] + m[3], ahi, m[2] + m[3], bhi)

\* list(differ.compare(src1, src2))
DifferCompare(a, b) == Compare(a, b, 0, Len(a), 0, Len(b))

----------------------------------------------------------------------------
(* treediff *)

Keys(map) == [k \in 1..Len(map) |-> map[k][1]]

\* map[key], for a key of the map
Lookup(map, k) == map[CHOOSE x \in 1..Len(map) : map[x][1] = k][2]

\* filter_changed(lines, line2node): the union of line2node[lr] over the intervals
\* (before = TRUE: i[:2] of each adjusted interval, else i[2:])
RECURSIVE filter_changed(_, _, _)
filter_changed(adjusted, before, line2node) ==
    IF adjusted = <<>> THEN {}
    ELSE LET lr == IF before THEN <<Head(adjusted)[1], Head(adjusted)[2]>>
                              ELSE <<Head(adjusted)[3], Head(adjusted)[4]>>
         IN  Line2NodesGetItem(line2node, lr[1], lr[2])
             \cup filter_changed(Tail(adjusted), before, line2node)

\* whether some line2node[lr] of filter_changed raises IndexError
FilterRaises(adjusted, before, line2node) ==
    \E x \in 1..Len(adjusted) :
        IF before THEN GetItemRaises(line2node, adjusted[x][1], adjusted[x][2])
                  ELSE GetItemRaises(line2node, adjusted[x][3], adjusted[x][4])

\* a treediff without the two early returns
ShortCircuitNever(wl1, wl2) == FALSE

\* `if len(white_list1) == 0: ... return diff` and `if len(white_list2) == 0: ...`
ShortCircuit(wl1, wl2) == wl1 = {} \/ wl2 = {}

RECURSIVE SortedSet(_)
\* the elements of a set of numbers as a sequence (the code iterates over the set)
SortedSet(S) ==
    IF S = {} THEN <<>>
    ELSE LET x == CHOOSE y \in S : \A z \in S : y <= z
         IN  <<x>> \o SortedSet(S \ {x})

\* the list the early returns build
ShortCircuitDiff(wl1, wl2) ==
    IF wl1 = {}
    THEN [k \in 1..Cardinality(wl2) |-> <<"add", SortedSet(wl2)[k]>>]
    ELSE [k \in 1..Cardinality(wl1) |-> <<"delete", SortedSet(wl1)[k]>>]

\* dists as the first round allocates it, over rows and columns 0..n1+n2-1
InitDists(n1, n2, S) ==
    [q \in (0..(n1 + n2 - 1)) \X (0..(n1 + n2 - 1)) |->
        IF (q[1] < n1 /\ q[2] >= n1) \/ (q[1] >= n1 /\ q[2] < n1)
        THEN HASH_SIZE * S
        ELSE 2 * HASH_SIZE * S]

\* a count in which byte_matches[b] lists j once for every occurrence of b in h2
MatchesNoSet(h1, h2) ==
    SumSeq([x \in 1..Len(h1) |-> Cardinality({y \in 1..Len(h2) : h2[y] = h1[x]})])

\* -candidates[j]: the bytes b of h1, each occurrence counted, with j in
\* byte_matches[b], that is with b among the bytes of h2
Matches(h1, h2) ==
    Cardinality({x \in 1..Len(h1) : h1[x] \in Range(h2)})

\* dists after `dists[i, len(map1):] += candidates` and
\* `dists[len(map1):, i] += candidates` for every i
Accumulate(D, m1, m2) ==
    LET n1 == Len(m1)
    IN  [q \in DOMAIN D |->
            IF q[1] < n1 /\ q[2] >= n1
            THEN D[q] - Matches(m1[q[1] + 1][2], m2[q[2] - n1 + 1][2])
            ELSE IF q[1] >= n1 /\ q[2] < n1
            THEN D[q] - Matches(m1[q[2] + 1][2], m2[q[1] - n1 + 1][2])
            ELSE D[q]]

RECURSIVE AddTo(_, _, _)
\* supermap[k] += h for the pairs (k, h) of map from its x-th on; supermap is a
\* defaultdict(bytes): a new key starts from b""
AddTo(supermap, map, x) ==
    IF x > Len(map) THEN supermap
    ELSE LET k == map[x][1]
             at == {y \in 1..Len(supermap) : supermap[y][1] = k}
         IN  AddTo(IF at = {} THEN Append(supermap, <<k, map[x][2]>>)
                   ELSE [supermap EXCEPT ![CHOOSE y \in at : TRUE][2] = @ \o map[x][2]],
                   map, x + 1)

\* supermap[k]: b"" for a key never added
Super(supermap, k) ==
    IF \E y \in 1..Len(supermap) : supermap[y][1] = k THEN Lookup(supermap, k) ELSE <<>>

\* the sets of k of the n columns
ColumnSets(n, k) == {U \in SUBSET (0..(n - 1)) : Cardinality(U) = k}

\* the least number of a set
Least(S) == CHOOSE x \in S : \A y \in S : x <= y

RECURSIVE LeastCosts(_, _, _)
\* for k = 0..upto (at index k + 1) and every set U of k columns, the least cost of
\* assigning the rows 0..k-1 to the columns of U
LeastCosts(D, n, upto) ==
    IF upto = 0 THEN <<[U \in {{}} |-> 0]>>
    ELSE LET tables == LeastCosts(D, n, upto - 1)
             prev == tables[upto]
         IN  Append(tables,
                    [U \in ColumnSets(n, upto) |->
                        Least({prev[U \ {c}] + D[<<upto - 1, c>>] : c \in U})])

RECURSIVE LeastAssignments(_, _, _, _)
\* the assignments of the rows 0..k-1 to the columns of U that have the least cost, as
\* sequences of columns
LeastAssignments(D, tables, k, U) ==
    IF k = 0 THEN {<<>>}
    ELSE UNION {{Append(q, c) : q \in LeastAssignments(D, tables, k - 1, U \ {c})} :
                   c \in {x \in U : tables[k][U \ {x}] + D[<<k - 1, x>>]
                                        = tables[k + 1][U]}}

\* lapjv.lapjv(dists)[0]: the solver is a library's; what it returns is an assignment
\* of the least cost, row_ind[i] the column of row i (any of them when several are)
Lapjv(D, n) ==
    LET tables == LeastCosts(D, n, n)
    IN  {[i \in 0..(n - 1) |-> q[i + 1]] :
            q \in LeastAssignments(D, tables, n, 0..(n - 1))}

\* set(enumerate(row_ind[:len(map1)]))
Assigned(rows, n1) == {<<i, rows[i]>> : i \in 0..(n1 - 1)}

\* a `deleted` that keeps the pairs below the threshold
DeletedBelow(D, rows, n1, threshold, S) ==
    {q \in Assigned(rows, n1) : q[2] < n1 \/ D[q] < threshold * S}

\* deleted, for a threshold (the code's is HASH_SIZE / 2)
Deleted(D, rows, n1, threshold, S) ==
    {q \in Assigned(rows, n1) : q[2] < n1 \/ D[q] > threshold * S}

\* exact
Exact(rows, m1, m2, sm1, sm2) ==
    {q \in Assigned(rows, Len(m1)) :
        q[2] >= Len(m1)
        /\ Super(sm1, Keys(m1)[q[1] + 1]) = Super(sm2, Keys(m2)[q[2] - Len(m1) + 1])}

\* added
Added(D, rows, n1, threshold, S) ==
    LET mapped2 == {q[2] : q \in Assigned(rows, n1) \ Deleted(D, rows, n1, threshold, S)}
    IN  (n1..(Cardinality(DOMAIN rows) - 1)) \ mapped2

\* the pairs of the "modify" entries
Modified(D, rows, m1, m2, sm1, sm2, threshold, S) ==
    (Assigned(rows, Len(m1)) \ Deleted(D, rows, Len(m1), threshold, S))
        \ Exact(rows, m1, m2, sm1, sm2)

\* the list `diff` the last stage builds: the deletes, the adds, the modifies
CompileDiff(D, rows, m1, m2, sm1, sm2, threshold, S) ==
    LET n1 == Len(m1)
        del == SortedSet({q[1] : q \in Deleted(D, rows, n1, threshold, S)})
        add == SortedSet(Added(D, rows, n1, threshold, S))
        mod == SortedSet({q[1] : q \in Modified(D, rows, m1, m2, sm1, sm2, threshold, S)})
    IN  [x \in 1..Len(del) |-> <<"delete", Keys(m1)[del[x] + 1]>>]
        \o [x \in 1..Len(add) |-> <<"add", Keys(m2)[add[x] - n1 + 1]>>]
        \o [x \in 1..Len(mod) |->
               <<"modify", Keys(m1)[mod[x] + 1], Keys(m2)[rows[mod[x]] - n1 + 1]>>]

----------------------------------------------------------------------------
(* The calls of treediff *)

\* The tree of a source: the root (node 1, with the FILE role) over all its lines, one
\* statement on every line l (node l + 1) whose token is the line, and, by shape:
\*   "flat": nothing else;
\*   "deep": the statement of line 1 has four children, two without position and two
\*           leaves on line 1;
\*   "span": the statement of line 1 extends to line 2 and has a leaf on each line.
TreeOf(src, shape) ==
    LET nlines == Len(src)
        extra == IF nlines = 0 \/ shape = "flat" THEN 0
                 ELSE IF shape = "deep" THEN 4
                 ELSE Min(2, nlines)
        n == 1 + nlines + extra
        first == nlines + 2
    IN  [children |-> [x \in 1..n |->
                          IF x = 1 THEN [l \in 1..nlines |-> l + 1]
                          ELSE IF x = 2 THEN [k \in 1..extra |-> nlines + 1 + k]
                          ELSE <<>>],
         line     |-> [x \in 1..n |->
                          IF x = 1 THEN Min(1, nlines)
                          ELSE IF x <= nlines + 1 THEN x - 1
                          ELSE IF shape = "deep" THEN (IF x < first + 2 THEN 0 ELSE 1)
                          ELSE x - first + 1],
         endline  |-> [x \in 1..n |->
                          IF x = 1 THEN nlines
                          ELSE IF x = 2 /\ shape = "span" THEN Min(2, nlines)
                          ELSE IF x <= nlines + 1 THEN x - 1
                          ELSE IF shape = "deep" THEN (IF x < first + 2 THEN 0 ELSE 1)
                          ELSE x - first + 1],
         token    |-> [x \in 1..n |->
                          IF x = 1 THEN 0
                          ELSE IF x <= nlines + 1 THEN src[x - 1]
                          ELSE x - first],
         roles    |-> [x \in 1..n |->
                          IF x = 1 THEN <<file_role>>
                          ELSE IF x <= nlines + 1 THEN <<1>>
                          ELSE IF shape = "deep" /\ x < first + 2 THEN <<>>
                          ELSE <<2, x - first>>]]

Shapes == {"flat", "deep", "span"}
SrcTokens == {0, 1, 2}

\* A call of treediff: two sources, their trees as one parser shapes them, and the
\* number of rounds.
InitTreediff ==
    /\ pc = "line2nodes"
    /\ src1 \in SeqsUpTo(SrcTokens, MaxSrcLines)
    /\ src2 \in SeqsUpTo(SrcTokens, MaxSrcLines)
    /\ \E shape \in Shapes : uast1 = TreeOf(src1, shape) /\ uast2 = TreeOf(src2, shape)
    /\ nseeds \in 0..MaxSeeds
    /\ line2nodes_before = <<>> /\ line2nodes_after = <<>>
    /\ seqdiff = <<>> /\ intervals = <<>> /\ adjusted_diff = <<>>
    /\ white_list1 = {} /\ white_list2 = {}
    /\ seed = 0
    /\ map1 = <<>> /\ map2 = <<>>
    /\ dists = <<>>
    /\ supermap1 = <<>> /\ supermap2 = <<>>
    /\ row_ind = <<>>
    /\ diff = <<>>
    /\ ret = None /\ script = None /\ key = None /\ nodes = None

\* line2nodes_before = Line2Nodes(len(src1), uast1), and the same after
IndexLines ==
    /\ pc = "line2nodes"
    /\ IF Line2NodesInitRaises(Len(src1), uast1) \/ Line2NodesInitRaises(Len(src2), uast2)
       THEN pc' = "raised" /\ UNCHANGED <<line2nodes_before, line2nodes_after>>
       ELSE /\ pc' = "regular diff"
            /\ line2nodes_before' = Line2NodesInit(Len(src1), uast1)
            /\ line2nodes_after' = Line2NodesInit(Len(src2), uast2)
    /\ UNCHANGED <<src1, src2, uast1, uast2, nseeds, seqdiff, intervals, adjusted_diff,
                   white_list1, white_list2, seed, map1, map2, ret, dists, supermap1,
                   supermap2, row_ind, diff, script, key, nodes>>

\* seqdiff = list(differ.compare(src1, src2)) and the call of adjust_seqdiff
RegularDiff ==
    /\ pc = "regular diff"
    /\ seqdiff' = DifferCompare(src1, src2)
    /\ intervals' = RawIntervals(seqdiff')
    /\ LET adjusted == adjust_seqdiff(seqdiff', src2, line2nodes_after)
       IN  IF adjusted.raised
           THEN pc' = "raised" /\ UNCHANGED adjusted_diff
           ELSE pc' = "filter" /\ adjusted_diff' = adjusted.out
    /\ UNCHANGED <<src1, src2, uast1, uast2, nseeds, line2nodes_before, line2nodes_after,
                   white_list1, white_list2, seed, map1, map2, ret, dists, supermap1,
                   supermap2, row_ind, diff, script, key, nodes>>

\* the two calls of filter_changed and the early returns
FilterChanged ==
    /\ pc = "filter"
    /\ IF FilterRaises(adjusted_diff, TRUE, line2nodes_before)
          \/ FilterRaises(adjusted_diff, FALSE, line2nodes_after)
       THEN pc' = "raised" /\ UNCHANGED <<white_list1, white_list2, diff>>
       ELSE LET wl1 == filter_changed(adjusted_diff, TRUE, line2nodes_before)
                wl2 == filter_changed(adjusted_diff, FALSE, line2nodes_after)
            IN  /\ white_list1' = wl1
                /\ white_list2' = wl2
                /\ IF ShortCircuit(wl1, wl2)
                   THEN pc' = "done" /\ diff' = ShortCircuitDiff(wl1, wl2)
                   ELSE pc' = "hash round" /\ UNCHANGED diff
    /\ UNCHANGED <<src1, src2, uast1, uast2, nseeds, line2nodes_before, line2nodes_after,
                   seqdiff, intervals, adjusted_diff, seed, map1, map2, ret, dists,
                   supermap1, supermap2, row_ind, script, key, nodes>>

\* the first half of a round: map1 = {}; map2 = {}; the two calls of hash_node
HashTrees ==
    /\ pc = "hash round"
    /\ seed < nseeds
    /\ LET h1 == hash_node(uast1, 1, seed, <<>>, white_list1)
           h2 == hash_node(uast2, 1, seed, <<>>, white_list2)
       IN  /\ map1' = h1.mapping
           /\ IF h1.raised THEN map2' = <<>> ELSE map2' = h2.mapping
           /\ pc' = IF h1.raised \/ h2.raised THEN "raised" ELSE "accumulate"
    /\ UNCHANGED <<src1, src2, uast1, uast2, nseeds, line2nodes_before, line2nodes_after,
                   seqdiff, intervals, adjusted_diff, white_list1, white_list2, seed, ret,
                   dists, supermap1, supermap2, row_ind, diff, script, key, nodes>>

\* the second half of a round: dists is allocated in the first round (`dists is None`),
\* the supermaps and dists take the round in.  Adding candidates to a slice of another
\* length raises ValueError.
AccumulateRound ==
    /\ pc = "accumulate"
    /\ LET D == IF seed = 0 THEN InitDists(Len(map1), Len(map2), nseeds) ELSE dists
       IN  IF Cardinality(DOMAIN D) # (Len(map1) + Len(map2)) * (Len(map1) + Len(map2))
           THEN pc' = "raised" /\ UNCHANGED <<dists, supermap1, supermap2, seed>>
           ELSE /\ dists' = Accumulate(D, map1, map2)
                /\ supermap1' = AddTo(supermap1, map1, 1)
                /\ supermap2' = AddTo(supermap2, map2, 1)
                /\ seed' = seed + 1
                /\ pc' = "hash round"
    /\ UNCHANGED <<src1, src2, uast1, uast2, nseeds, line2nodes_before, line2nodes_after,
                   seqdiff, intervals, adjusted_diff, white_list1, white_list2, map1, map2,
                   ret, row_ind, diff, script, key, nodes>>

\* after the rounds: seq1 = list(map1) raises UnboundLocalError when there was no round;
\* else row_ind, _, _ = lapjv.lapjv(dists)
Assign ==
    /\ pc = "hash round"
    /\ seed >= nseeds
    /\ IF nseeds <= 0
       THEN pc' = "raised" /\ UNCHANGED row_ind
       ELSE pc' = "compile" /\ row_ind' \in Lapjv(dists, Len(map1) + Len(map2))
    /\ UNCHANGED <<src1, src2, uast1, uast2, nseeds, line2nodes_before, line2nodes_after,
                   seqdiff, intervals, adjusted_diff, white_list1, white_list2, seed, map1,
                   map2, ret, dists, supermap1, supermap2, diff, script, key, nodes>>

\* "compiling edit script", with threshold = HASH_SIZE / 2
CompileScript ==
    /\ pc = "compile"
    /\ diff' = CompileDiff(dists, row_ind, map1, map2, supermap1, supermap2,
                           HASH_SIZE \div 2, nseeds)
    /\ pc' = "done"
    /\ UNCHANGED <<src1, src2, uast1, uast2, nseeds, line2nodes_before, line2nodes_after,
                   seqdiff, intervals, adjusted_diff, white_list1, white_list2, seed, map1,
                   map2, ret, dists, supermap1, supermap2, row_ind, script, key, nodes>>

NextTreediff ==
    \/ IndexLines
    \/ RegularDiff
    \/ FilterChanged
    \/ HashTrees
    \/ AccumulateRound
    \/ Assign
    \/ CompileScript

SpecTreediff == InitTreediff /\ [][NextTreediff]_vars

----------------------------------------------------------------------------
(* Properties of treediff *)

\* the last stage has classified the assignment
Compiled == pc = "done" /\ seed > 0

ExactlyOne(a, b, c) == (a /\ ~b /\ ~c) \/ (~a /\ b /\ ~c) \/ (~a /\ ~b /\ c)

\* C1: when the script is compiled, every before-index i is in exactly one of deleted,
\* exact and modify, and every after-index k in exactly one of added, exact and modify.
C1_Partition ==
    Compiled =>
        LET n1 == Len(map1)
            n2 == Len(map2)
            threshold == HASH_SIZE \div 2
            del == Deleted(dists, row_ind, n1, threshold, nseeds)
            ex == Exact(row_ind, map1, map2, supermap1, supermap2)
            mod == Modified(dists, row_ind, map1, map2, supermap1, supermap2,
                            threshold, nseeds)
            add == Added(dists, row_ind, n1, threshold, nseeds)
        IN  /\ \A i \in 0..(n1 - 1) :
                  ExactlyOne(\E q \in del : q[1] = i,
                             \E q \in ex : q[1] = i,
                             \E q \in mod : q[1] = i)
            /\ \A k \in 0..(n2 - 1) :
                  ExactlyOne(n1 + k \in add,
                             \E q \in ex : q[2] = n1 + k,
                             \E q \in mod : q[2] = n1 + k)

Thresholds == 0..HASH_SIZE

\* the number of deletes of the script compiled with threshold t
NumDeleted(t) == Cardinality(Deleted(dists, row_ind, Len(map1), t, nseeds))

\* the number of modifies of the script compiled with threshold t
NumModified(t) ==
    Cardinality(Modified(dists, row_ind, map1, map2, supermap1, supermap2, t, nseeds))

\* C5, as the code decides: with the matrix and the assignment held fixed, raising the
\* threshold cannot increase the number of deletes and cannot decrease the number of
\* modifies.
C5_RaisingThresholdDeletesLess ==
    Compiled =>
        LET del == [t \in Thresholds |-> NumDeleted(t)]
            mod == [t \in Thresholds |-> NumModified(t)]
        IN  \A t1 \in Thresholds, t2 \in Thresholds :
                t1 <= t2 => del[t2] <= del[t1] /\ mod[t2] >= mod[t1]

\* C5, as the specification states it: raising the threshold cannot decrease the number
\* of deletes and cannot increase the number of modifies.
C5_RaisingThresholdDeletesMore ==
    Compiled =>
        LET del == [t \in Thresholds |-> NumDeleted(t)]
            mod == [t \in Thresholds |-> NumModified(t)]
        IN  \A t1 \in Thresholds, t2 \in Thresholds :
                t1 <= t2 => del[t2] >= del[t1] /\ mod[t2] <= mod[t1]

\* C5, witness: a compiled script of which a higher threshold than the code's deletes
\* fewer pairs and modifies more
C5_Witness ==
    /\ Compiled
    /\ \E t \in Thresholds :
          /\ HASH_SIZE \div 2 < t
          /\ NumDeleted(t) < NumDeleted(HASH_SIZE \div 2)
          /\ NumModified(t) > NumModified(HASH_SIZE \div 2)

\* C7: the maps of every round after the first hold the nodes of the rounds before, in
\* the same order (the keys of the supermaps, which the first round inserted), and
\* their sizes are those dists was allocated for.
C7_MapsStableAcrossRounds ==
    (pc = "accumulate" /\ seed >= 1) =>
        /\ Keys(map1) = Keys(supermap1)
        /\ Keys(map2) = Keys(supermap2)
        /\ Cardinality(DOMAIN dists)
               = (Len(map1) + Len(map2)) * (Len(map1) + Len(map2))

\* C7, witness: a later round has hashed both trees, each with several nodes
C7_Witness ==
    pc = "accumulate" /\ seed >= 1 /\ Len(map1) > 1 /\ Len(map2) > 1

\* C9: after every round a cell of the real block and of its transpose lies in
\* [0, HASH_SIZE * S] and every other cell in [HASH_SIZE * S, 2 * HASH_SIZE * S].
C9_CellsInRange ==
    (seed > 0 /\ pc # "raised") =>
        \A q \in DOMAIN dists :
            IF (q[1] < Len(map1) /\ q[2] >= Len(map1))
                   \/ (q[1] >= Len(map1) /\ q[2] < Len(map1))
            THEN 0 <= dists[q] /\ dists[q] <= HASH_SIZE * nseeds
            ELSE HASH_SIZE * nseeds <= dists[q] /\ dists[q] <= 2 * HASH_SIZE * nseeds

\* C9, witness: after the last of several rounds a cell of the real block is down to 0
\* and another is not
C9_Witness ==
    /\ seed > 1 /\ seed = nseeds /\ pc = "hash round"
    /\ \E q \in DOMAIN dists : q[1] < Len(map1) /\ q[2] >= Len(map1) /\ dists[q] = 0
    /\ \E q \in DOMAIN dists : q[1] < Len(map1) /\ q[2] >= Len(map1) /\ dists[q] > 0

----------------------------------------------------------------------------
(* write_diff *)

\* format_position(): the dict of a position
format_position(pos) == [line |-> pos.line, col |-> pos.col, offset |-> pos.offset]

\* The loop of write_diff over diff[k..]: the entries it appends to script
RECURSIVE WriteFrom(_, _)
WriteFrom(d, k) ==
    IF k > Len(d) THEN <<>>
    ELSE LET change == d[k]
             action == change[1]
             node == change[2]
         IN  IF file_role \in Range(node.roles) THEN WriteFrom(d, k + 1)
             ELSE IF node.start_position.line = 0 THEN WriteFrom(d, k + 1)
             ELSE IF action \in {"add", "delete"}
             THEN <<<<action, format_position(node.start_position),
                      format_position(node.end_position)>>>> \o WriteFrom(d, k + 1)
             ELSE <<<<action,
                      [before |-> <<format_position(change[2].start_position),
                                    format_position(change[2].end_position)>>,
                       after  |-> <<format_position(change[3].start_position),
                                    format_position(change[3].end_position)>>]>>>>
                  \o WriteFrom(d, k + 1)

\* the script write_diff dumps
write_diff(d) == WriteFrom(d, 1)

\* a node of a tree, as write_diff reads it
Node(roles, l1, c1, o1, l2, c2, o2) ==
    [roles |-> roles,
     start_position |-> [line |-> l1, col |-> c1, offset |-> o1],
     end_position |-> [line |-> l2, col |-> c2, offset |-> o2]]

\* The nodes of a tree of two lines: the root with the FILE role, a statement on each
\* line, and a node without position. No two of them have the same positions.
FileNode == Node(<<file_role>>, 1, 1, 0, 2, 5, 9)
WriteNodes ==
    {FileNode,
     Node(<<1>>, 1, 1, 0, 1, 4, 3),
     Node(<<1, 2>>, 2, 1, 5, 2, 5, 9),
     Node(<<2>>, 0, 0, 0, 0, 0, 0)}

\* the entries treediff can put in a diff
Changes ==
    {<<a, n>> : a \in {"add", "delete"}, n \in WriteNodes}
        \cup {<<"modify", n, m>> : n \in WriteNodes, m \in WriteNodes}

InitWrite ==
    /\ pc = "write_diff"
    /\ diff \in SeqsUpTo(Changes, MaxChanges)
    /\ script = <<>>
    /\ src1 = None /\ src2 = None /\ uast1 = None /\ uast2 = None /\ nseeds = None
    /\ line2nodes_before = None /\ line2nodes_after = None /\ seqdiff = None
    /\ intervals = None /\ adjusted_diff = None /\ white_list1 = None
    /\ white_list2 = None /\ seed = None /\ map1 = None /\ map2 = None /\ ret = None
    /\ dists = None /\ supermap1 = None /\ supermap2 = None /\ row_ind = None
    /\ key = None /\ nodes = None

WriteDiff ==
    /\ pc = "write_diff"
    /\ script' = write_diff(diff)
    /\ pc' = "written"
    /\ UNCHANGED <<src1, src2, uast1, uast2, nseeds, line2nodes_before,
                   line2nodes_after, seqdiff, intervals, adjusted_diff, white_list1,
                   white_list2, seed, map1, map2, ret, dists, supermap1, supermap2,
                   row_ind, diff, key, nodes>>

NextWrite == WriteDiff

SpecWrite == InitWrite /\ [][NextWrite]_vars

\* the positions of a node, as an entry of the script holds them
PositionsOf(n) == <<format_position(n.start_position), format_position(n.end_position)>>

\* an entry of the script refers to node n
RefersTo(entry, n) ==
    IF entry[1] \in {"add", "delete"} THEN <<entry[2], entry[3]>> = PositionsOf(n)
    ELSE entry[2].before = PositionsOf(n) \/ entry[2].after = PositionsOf(n)

\* C6: no entry of the script write_diff emits refers to a node with the FILE role,
\* be it the node of an add or a delete, or the before- or the after-node of a modify.
C6_NoFileRoleInScript ==
    pc = "written" =>
        \A x \in 1..Len(script) :
            \A n \in WriteNodes :
                file_role \in Range(n.roles) => ~RefersTo(script[x], n)

============================================================================
